---- MODULE Spec2Model ----
(***************************************************************************)
(* A model of datasette/views/special.py: the special views of a Datasette *)
(* instance (root-token bootstrap, logout, permission and allow debugging, *)
(* message debugging, signed API token creation, JSON data views).         *)
(*                                                                         *)
(* Every view handler is a coroutine; the event loop runs it without       *)
(* preemption, so the steps of a handler that shares state with other      *)
(* handlers and has no suspension point between them form one action.      *)
(***************************************************************************)
EXTENDS Integers, Sequences, FiniteSets, TLC

VARIABLES
    root_token,     \* Datasette._root_token: the startup secret, or None once used
    startup_secret, \* ghost: the secret generated at startup (never changes)
    hpc,            \* per in-flight AuthTokenView request: "idle" | "received" | "done"
    hreq,           \* per in-flight AuthTokenView request: the ?token= argument, and
                    \* (ghost) whether it was the valid secret when the request arrived
    hres,           \* per in-flight AuthTokenView request: the response produced
    root_issued,    \* ghost: how many ds_actor cookies for root were issued (saturating)
    now,            \* int(time.time())
    ticks,          \* ghost: how many times the clock was advanced
    allow_signed_tokens, \* the allow_signed_tokens setting of the instance
    cors,           \* Datasette.cors: the instance serves CORS headers
    plugins,        \* the permission_allowed hooks, in registration order
    config,         \* the configured allow rules, per permission and resource
    permission_checks, \* Datasette._permission_checks: the log of recent checks
    auth,           \* the credential presented in the last step and the actor it resolved to
    last            \* the request handled last by a view other than AuthTokenView

vars == <<root_token, startup_secret, hpc, hreq, hres, root_issued, now, ticks,
          allow_signed_tokens, cors, plugins, config, permission_checks, auth, last>>

\* What is fixed when the instance is constructed
configuration == <<allow_signed_tokens, cors, plugins, config>>

----------------------------------------------------------------------------
(* Bounds of the model *)

\* Concurrent in-flight requests to /-/auth-token
NumHandlers == 2
\* Saturation of the ghost counter of issued root cookies
MaxRootCount == 2
\* How many times the clock advances in a behaviour
MaxTicks == 4
\* Longest expire_duration string posted to /-/create-token
MaxLen == 2
\* How many records the log of permission checks keeps
ChecksCapacity == 2

----------------------------------------------------------------------------
(* Python values *)

\* Python's None where a string is expected (no request can present it)
None == "<None>"

\* bool(s) of a str-or-None
Truthy(s) == s # None /\ s # ""

\* An optional value is a set with no or one element
NoValue == {}

\* No credential was presented in the last step
NoAuth == [kind |-> "none"]

----------------------------------------------------------------------------
(* Signing: Datasette.sign / Datasette.unsign (itsdangerous, a keyed         *)
(* signature over the payload, salted with the namespace)                   *)

\* The instance's secret key
SigningKey == "secret-key"

\* The keyed signature of a payload under a namespace
Mac(key, namespace, payload) == <<key, namespace, payload>>

\* ds.sign(value, namespace)
Sign(value, namespace) ==
    [body |-> value, sig |-> Mac(SigningKey, namespace, value)]

\* ds.unsign(signed, namespace): the payload, or nothing on BadSignature
Unsign(signed, namespace) ==
    IF signed.sig = Mac(SigningKey, namespace, signed.body)
    THEN {signed.body}
    ELSE NoValue

----------------------------------------------------------------------------
(* AuthTokenView: /-/auth-token?token=... *)

Handlers == 1..NumHandlers

\* Secrets the startup may generate (secrets.token_hex)
Secrets == {"f3a9", "07cd"}

\* Values with a character outside ASCII ("e-acute" stands for the
\* one-character string U+00E9)
NonAsciiTokens == {"e-acute"}

\* Values a client may present as ?token= ("" when the argument is absent)
PresentedTokens == Secrets \cup {"", "guess"} \cup NonAsciiTokens

\* The namespace AuthTokenView signs the actor cookie under
ActorNamespace == "actor"

\* The payload of the root actor's cookie
RootActorPayload == [a |-> [id |-> "root"]]

NoArgs == [token |-> "", valid_on_arrival |-> FALSE]

NoResponse == [status |-> 0, error |-> "", cookies |-> {}]

\* raise Forbidden(message)
ForbiddenResponse(message) == [status |-> 403, error |-> message, cookies |-> {}]

\* Response.redirect(...) with set_cookie("ds_actor", ...)
RootRedirect ==
    [status |-> 302, error |-> "",
     cookies |-> {[name |-> "ds_actor", value |-> Sign(RootActorPayload, ActorNamespace)]}]

\* The response to a request whose handler raised another exception
ErrorResponse(exception) == [status |-> 500, error |-> exception, cookies |-> {}]

\* secrets.compare_digest(a, b) raises TypeError for a str that is not ASCII
CompareDigestRaises(a, b) == a \in NonAsciiTokens \/ b \in NonAsciiTokens

\* secrets.compare_digest(a, b) of two ASCII strings
CompareDigest(a, b) == a = b

\* A request arrives: request.args.get("token") or ""
AuthTokenArrive(h, token) ==
    /\ hpc[h] = "idle"
    /\ hpc' = [hpc EXCEPT ![h] = "received"]
    /\ hreq' = [hreq EXCEPT ![h] =
                    [token |-> token,
                     valid_on_arrival |-> Truthy(root_token) /\ token = root_token]]
    /\ hres' = [hres EXCEPT ![h] = NoResponse]
    /\ UNCHANGED <<root_token, startup_secret, root_issued, now, ticks, configuration, permission_checks, last>>
    /\ auth' = NoAuth

\* The same handler with a suspension point between the comparison and the
\* clearing of the secret
AuthTokenGetSplit(h) ==
    \/ /\ hpc[h] = "received"
       /\ IF ~Truthy(root_token)
          THEN /\ hres' = [hres EXCEPT ![h] = ForbiddenResponse("Root token has already been used")]
               /\ hpc' = [hpc EXCEPT ![h] = "done"]
          ELSE IF CompareDigestRaises(hreq[h].token, root_token)
          THEN /\ hres' = [hres EXCEPT ![h] = ErrorResponse("TypeError")]
               /\ hpc' = [hpc EXCEPT ![h] = "done"]
          ELSE IF CompareDigest(hreq[h].token, root_token)
          THEN /\ hpc' = [hpc EXCEPT ![h] = "matched"]
               /\ UNCHANGED hres
          ELSE /\ hres' = [hres EXCEPT ![h] = ForbiddenResponse("Invalid token")]
               /\ hpc' = [hpc EXCEPT ![h] = "done"]
       /\ UNCHANGED <<root_token, root_issued>>
       /\ UNCHANGED <<startup_secret, hreq, now, ticks, configuration, permission_checks, last>>
       /\ auth' = NoAuth
    \/ /\ hpc[h] = "matched"
       /\ root_token' = None
       /\ root_issued' = IF root_issued < MaxRootCount THEN root_issued + 1 ELSE root_issued
       /\ hres' = [hres EXCEPT ![h] = RootRedirect]
       /\ hpc' = [hpc EXCEPT ![h] = "done"]
       /\ UNCHANGED <<startup_secret, hreq, now, ticks, configuration, permission_checks, last>>
       /\ auth' = NoAuth

\* The same handler forgetting to clear the secret
AuthTokenGetNoClear(h) ==
    /\ hpc[h] = "received"
    /\ IF ~Truthy(root_token)
       THEN /\ hres' = [hres EXCEPT ![h] = ForbiddenResponse("Root token has already been used")]
            /\ UNCHANGED root_issued
       ELSE IF CompareDigestRaises(hreq[h].token, root_token)
       THEN /\ hres' = [hres EXCEPT ![h] = ErrorResponse("TypeError")]
            /\ UNCHANGED root_issued
       ELSE IF CompareDigest(hreq[h].token, root_token)
       THEN /\ hres' = [hres EXCEPT ![h] = RootRedirect]
            /\ root_issued' = IF root_issued < MaxRootCount THEN root_issued + 1 ELSE root_issued
       ELSE /\ hres' = [hres EXCEPT ![h] = ForbiddenResponse("Invalid token")]
            /\ UNCHANGED root_issued
    /\ hpc' = [hpc EXCEPT ![h] = "done"]
    /\ UNCHANGED <<root_token, startup_secret, hreq, now, ticks, configuration, permission_checks, last>>
    /\ auth' = NoAuth

\* The same handler answering every failure with one message
AuthTokenGetOneMessage(h) ==
    /\ hpc[h] = "received"
    /\ IF Truthy(root_token) /\ CompareDigestRaises(hreq[h].token, root_token)
       THEN /\ hres' = [hres EXCEPT ![h] = ErrorResponse("TypeError")]
            /\ UNCHANGED <<root_token, root_issued>>
       ELSE IF Truthy(root_token) /\ CompareDigest(hreq[h].token, root_token)
       THEN /\ root_token' = None
            /\ hres' = [hres EXCEPT ![h] = RootRedirect]
            /\ root_issued' = IF root_issued < MaxRootCount THEN root_issued + 1 ELSE root_issued
       ELSE /\ hres' = [hres EXCEPT ![h] = ForbiddenResponse("Invalid token")]
            /\ UNCHANGED <<root_token, root_issued>>
    /\ hpc' = [hpc EXCEPT ![h] = "done"]
    /\ UNCHANGED <<startup_secret, hreq, now, ticks, configuration, permission_checks, last>>
    /\ auth' = NoAuth

\* AuthTokenView.get: no await between the test, the comparison and the
\* clearing; the comparison raises for a value that is not ASCII
AuthTokenGet(h) ==
    /\ hpc[h] = "received"
    /\ IF ~Truthy(root_token)
       THEN /\ hres' = [hres EXCEPT ![h] = ForbiddenResponse("Root token has already been used")]
            /\ UNCHANGED <<root_token, root_issued>>
       ELSE IF CompareDigestRaises(hreq[h].token, root_token)
       THEN /\ hres' = [hres EXCEPT ![h] = ErrorResponse("TypeError")]
            /\ UNCHANGED <<root_token, root_issued>>
       ELSE IF CompareDigest(hreq[h].token, root_token)
       THEN /\ root_token' = None
            /\ hres' = [hres EXCEPT ![h] = RootRedirect]
            /\ root_issued' = IF root_issued < MaxRootCount THEN root_issued + 1 ELSE root_issued
       ELSE /\ hres' = [hres EXCEPT ![h] = ForbiddenResponse("Invalid token")]
            /\ UNCHANGED <<root_token, root_issued>>
    /\ hpc' = [hpc EXCEPT ![h] = "done"]
    /\ UNCHANGED <<startup_secret, hreq, now, ticks, configuration, permission_checks, last>>
    /\ auth' = NoAuth

\* The response is sent and the connection is free for the next request
AuthTokenClose(h) ==
    /\ hpc[h] = "done"
    /\ hpc' = [hpc EXCEPT ![h] = "idle"]
    /\ hreq' = [hreq EXCEPT ![h] = NoArgs]
    /\ hres' = [hres EXCEPT ![h] = NoResponse]
    /\ UNCHANGED <<root_token, startup_secret, root_issued, now, ticks, configuration, permission_checks, last>>
    /\ auth' = NoAuth

----------------------------------------------------------------------------
(* Actors: request.actor is None or a dict; a dict is the set of its        *)
(* (key, value) items                                                       *)

NoneActor == [none |-> TRUE, attrs |-> {}]

Actor(items) == [none |-> FALSE, attrs |-> items]

\* bool(actor): None and the empty dict are falsy
ActorTruthy(actor) == ~actor.none /\ actor.attrs # {}

\* actor.get(key), as an optional value
ActorGet(actor, key) == {item[2] : item \in {i \in actor.attrs : i[1] = key}}

\* bool(actor.get(key))
ActorGetTruthy(actor, key) == \E v \in ActorGet(actor, key) : v # ""

\* Actors a request to /-/create-token may carry
TokenRequestActors ==
    {NoneActor,
     Actor({}),
     Actor({<<"name", "carol">>}),
     Actor({<<"id", "">>}),
     Actor({<<"id", "alice">>}),
     Actor({<<"id", "root">>}),
     Actor({<<"id", "alice">>, <<"token", "">>}),
     Actor({<<"id", "alice">>, <<"token", "dstok">>}),
     Actor({<<"token", "dstok">>})}

----------------------------------------------------------------------------
(* Strings of the expire_duration form field, as sequences of characters *)

\* Characters int() reads as decimal digits, with their values
DecimalValue == [c \in {"0", "1"} |-> IF c = "0" THEN 0 ELSE 1]

DecimalChars == DOMAIN DecimalValue

\* Characters str.isdigit() accepts: the decimal digits and the other
\* characters of Unicode type Digit, such as SUPERSCRIPT TWO
DigitChars == DecimalChars \cup {"sup2"}

\* Characters of the posted strings
Chars == DigitChars \cup {"-"}

\* The strings of at most n characters
RECURSIVE StringsUpTo(_)
StringsUpTo(n) ==
    IF n = 0 THEN {<<>>}
    ELSE LET shorter == StringsUpTo(n - 1)
         IN shorter \cup {Append(s, c) : s \in shorter, c \in Chars}

\* str.isdigit(): non-empty and every character is a digit
IsDigit(s) == Len(s) > 0 /\ \A i \in 1..Len(s) : s[i] \in DigitChars

\* int(s) raises ValueError unless every character is a decimal digit
\* (for the strings that pass isdigit: no sign, space or underscore)
IntRaises(s) == Len(s) = 0 \/ \E i \in 1..Len(s) : s[i] \notin DecimalChars

\* int(s) of a string of decimal digits
RECURSIVE IntOf(_)
IntOf(s) ==
    IF Len(s) = 0 THEN 0
    ELSE 10 * IntOf(SubSeq(s, 1, Len(s) - 1)) + DecimalValue[s[Len(s)]]

----------------------------------------------------------------------------
(* CreateTokenView: /-/create-token *)

\* The prefix of a token string
TokenPrefix == "dstok_"

\* The form: post.get(name) is None when the field is absent
PostVars ==
    [expire_type : {{}} \cup {{u} : u \in {"", "minutes", "hours", "days", "fortnights"}},
     expire_duration : {{}} \cup {{s} : s \in StringsUpTo(MaxLen)}]

\* A response of a view: what was asked, the outcome, the calls the handler
\* made in order, and the template context or JSON body
Response(view, method, actor, post, status, error, calls, ctx) ==
    [view |-> view, method |-> method, actor |-> actor, post |-> post, at |-> now,
     status |-> status, error |-> error, calls |-> calls, ctx |-> ctx]

NoPost == [expire_type |-> {}, expire_duration |-> {}]

NoContext == [errors |-> <<>>, token |-> {}, token_bits |-> {}]

\* The same check without the test of the token marker
CheckPermissionNoTokenTest(actor) ==
    IF ~allow_signed_tokens
    THEN "Signed tokens are not enabled for this Datasette instance"
    ELSE IF ~ActorTruthy(actor)
    THEN "You must be logged in to create a token"
    ELSE IF ~ActorGetTruthy(actor, "id")
    THEN "You must be logged in as an actor with an ID to create a token"
    ELSE ""

\* CreateTokenView.check_permission: the message of the Forbidden it raises, or ""
CheckPermission(actor) ==
    IF ~allow_signed_tokens
    THEN "Signed tokens are not enabled for this Datasette instance"
    ELSE IF ~ActorTruthy(actor)
    THEN "You must be logged in to create a token"
    ELSE IF ~ActorGetTruthy(actor, "id")
    THEN "You must be logged in as an actor with an ID to create a token"
    ELSE IF ActorGetTruthy(actor, "token")
    THEN "Token authentication cannot be used to create additional tokens"
    ELSE ""

\* A namespace shared with the actor cookie
TokenNamespaceAsActor == "actor"

\* The namespace CreateTokenView signs tokens under
TokenNamespace == "token"

\* The conversion with the hours converted as minutes
DurationSecondsHoursAsMinutes(unit, count) ==
    IF unit = "minutes" THEN {count * 60}
    ELSE IF unit = "hours" THEN {count * 60}
    ELSE IF unit = "days" THEN {count * 60 * 60 * 24}
    ELSE {}

\* The conversion of a count of units to seconds; nothing for another unit
DurationSeconds(unit, count) ==
    IF unit = "minutes" THEN {count * 60}
    ELSE IF unit = "hours" THEN {count * 60 * 60}
    ELSE IF unit = "days" THEN {count * 60 * 60 * 24}
    ELSE {}

\* not duration_string or not duration_string.isdigit() or not int(...) > 0,
\* for a string int() reads
BadDurationString(text) ==
    \/ text = {}
    \/ \E s \in text : Len(s) = 0 \/ ~IsDigit(s) \/ ~(IntOf(s) > 0)

\* The token dstok_<signed payload>
TokenString(bits) == [prefix |-> TokenPrefix, signed |-> Sign(bits, TokenNamespace)]

\* The same context with the count validated whether or not a unit is given
CreateTokenContextCountAlwaysValidated(actor, post) ==
    LET requested == \E u \in post.expire_type : u # ""
        unit == CHOOSE u \in post.expire_type : TRUE
        bad == BadDurationString(post.expire_duration)
        count == IntOf(CHOOSE s \in post.expire_duration : TRUE)
        duration == IF requested /\ ~bad THEN DurationSeconds(unit, count) ELSE {}
        errors == IF bad THEN <<"Invalid expire duration">>
                  ELSE IF ~requested THEN <<>>
                  ELSE IF duration = {} THEN <<"Invalid expire duration unit">>
                  ELSE <<>>
        bits == [a |-> CHOOSE v \in ActorGet(actor, "id") : TRUE,
                 t |-> now,
                 d |-> {d \in duration : d # 0}]
    IN  IF errors = <<>>
        THEN [errors |-> errors, token |-> {TokenString(bits)}, token_bits |-> {bits}]
        ELSE [errors |-> errors, token |-> {}, token_bits |-> {}]

\* The template context of CreateTokenView.post once the form is read
CreateTokenContext(actor, post) ==
    LET requested == \E u \in post.expire_type : u # ""
        unit == CHOOSE u \in post.expire_type : TRUE
        bad == BadDurationString(post.expire_duration)
        count == IntOf(CHOOSE s \in post.expire_duration : TRUE)
        duration == IF requested /\ ~bad THEN DurationSeconds(unit, count) ELSE {}
        errors == IF ~requested THEN <<>>
                  ELSE IF bad THEN <<"Invalid expire duration">>
                  ELSE IF duration = {} THEN <<"Invalid expire duration unit">>
                  ELSE <<>>
        bits == [a |-> CHOOSE v \in ActorGet(actor, "id") : TRUE,
                 t |-> now,
                 d |-> {d \in duration : d # 0}]
    IN  IF errors = <<>>
        THEN [errors |-> errors, token |-> {TokenString(bits)}, token_bits |-> {bits}]
        ELSE [errors |-> errors, token |-> {}, token_bits |-> {}]

\* int(duration_string) raises in the validation of the form
CreateTokenRaises(post) ==
    /\ \E u \in post.expire_type : u # ""
    /\ \E s \in post.expire_duration : IsDigit(s) /\ IntRaises(s)

\* CreateTokenView.get
CreateTokenGet(actor) ==
    /\ last' =
          LET denied == CheckPermission(actor)
          IN  IF denied # ""
              THEN Response("create_token", "GET", actor, NoPost, 403, denied,
                            <<"check_permission">>, NoContext)
              ELSE Response("create_token", "GET", actor, NoPost, 200, "",
                            <<"check_permission", "render">>, NoContext)
    /\ auth' = NoAuth
    /\ UNCHANGED <<root_token, startup_secret, hpc, hreq, hres, root_issued, now,
                   ticks, configuration, permission_checks>>

\* CreateTokenView.post up to its suspension point: check_permission, then
\* await request.post_vars()
CreateTokenPostBegin(actor) ==
    /\ last' =
          LET denied == CheckPermission(actor)
          IN  IF denied # ""
              THEN Response("create_token", "POST", actor, NoPost, 403, denied,
                            <<"check_permission">>, NoContext)
              ELSE Response("create_token", "POST", actor, NoPost, 0, "",
                            <<"check_permission">>, NoContext)
    /\ auth' = NoAuth
    /\ UNCHANGED <<root_token, startup_secret, hpc, hreq, hres, root_issued, now,
                   ticks, configuration, permission_checks>>

\* A request of CreateTokenView.post is waiting for its form
AwaitingForm == last.view = "create_token" /\ last.method = "POST" /\ last.status = 0

\* CreateTokenView.post once the form is read: validation, signing, rendering
CreateTokenPostForm(post) ==
    /\ AwaitingForm
    /\ last' =
          IF CreateTokenRaises(post)
          THEN Response("create_token", "POST", last.actor, post, 500, "ValueError",
                        <<"check_permission", "post_vars">>, NoContext)
          ELSE LET ctx == CreateTokenContext(last.actor, post)
               IN  Response("create_token", "POST", last.actor, post, 200, "",
                            IF ctx.token # {}
                            THEN <<"check_permission", "post_vars", "sign", "render">>
                            ELSE <<"check_permission", "post_vars", "render">>,
                            ctx)
    /\ auth' = NoAuth
    /\ UNCHANGED <<root_token, startup_secret, hpc, hreq, hres, root_issued, now,
                   ticks, configuration, permission_checks>>

----------------------------------------------------------------------------
(* Authentication of a request: the bearer token and the ds_actor cookie,   *)
(* and the clock                                                           *)

\* The actor a dstok_ token resolves to at a time, if any: the prefix is
\* stripped, the rest unsigned under "token", and a token with a duration is
\* refused once time > issued_at + duration
Resolve(token, time) ==
    IF token.prefix # "dstok_" THEN {}
    ELSE {Actor({<<"id", bits.a>>, <<"token", "dstok">>}) :
             bits \in {b \in Unsign(token.signed, "token") :
                          \A d \in b.d : ~(time > b.t + d)}}

\* The actor a ds_actor cookie resolves to, if any
ActorFromCookie(value) == {payload.a : payload \in Unsign(value, "actor")}

\* The signed values the instance has handed out and a client still holds
HeldCookies == UNION {{c.value : c \in hres[h].cookies} : h \in Handlers}

HeldTokens == IF last.view = "create_token" THEN last.ctx.token ELSE {}

\* A client presents a bearer token: one it was issued, or a cookie value
\* dressed as a token, with or without the prefix
PresentBearer(token) ==
    /\ auth' = [kind |-> "bearer", token |-> token, at |-> now,
                actor |-> Resolve(token, now)]
    /\ UNCHANGED <<root_token, startup_secret, hpc, hreq, hres, root_issued, now,
                   ticks, configuration, permission_checks, last>>

\* A client presents a ds_actor cookie: one it was set, or the signed part of
\* a token
PresentCookie(value) ==
    /\ auth' = [kind |-> "cookie", token |-> [prefix |-> "", signed |-> value],
                at |-> now, actor |-> ActorFromCookie(value)]
    /\ UNCHANGED <<root_token, startup_secret, hpc, hreq, hres, root_issued, now,
                   ticks, configuration, permission_checks, last>>

\* What a client can present as a bearer token
BearerCandidates ==
    HeldTokens
    \cup {[prefix |-> "", signed |-> t.signed] : t \in HeldTokens}
    \cup {[prefix |-> TokenPrefix, signed |-> v] : v \in HeldCookies}

\* What a client can present as a ds_actor cookie
CookieCandidates == HeldCookies \cup {t.signed : t \in HeldTokens}

\* Seconds the clock may advance by in one step
TickSteps == {1, 59, 3540}

\* time.time() advances
Tick(seconds) ==
    /\ ticks < MaxTicks
    /\ ticks' = ticks + 1
    /\ now' = now + seconds
    /\ auth' = NoAuth
    /\ UNCHANGED <<root_token, startup_secret, hpc, hreq, hres, root_issued,
                   configuration, permission_checks, last>>

----------------------------------------------------------------------------
(* Allow rules: actor_matches_allow(actor, allow)                           *)

\* The rule true or false
Literal(value) ==
    [kind |-> "literal", value |-> value, unauthenticated |-> FALSE,
     except |-> {}, keys |-> {}]

\* A rule object: "unauthenticated": true, "except": a nested rule (none or
\* one), and attribute keys each with its acceptable values ("*": any)
MapRule(unauthenticated, except, keys) ==
    [kind |-> "map", value |-> FALSE, unauthenticated |-> unauthenticated,
     except |-> except, keys |-> keys]

\* One key of a rule against the actor: the key must be present; "*" accepts
\* any value, otherwise the value must be one of the acceptable ones
KeyMatches(actor, entry) ==
    \E v \in ActorGet(actor, entry[1]) : "*" \in entry[2] \/ v \in entry[2]

\* The matcher reading "except" as one more attribute key, which no actor has
RECURSIVE MatchesExceptAsKey(_, _)
MatchesExceptAsKey(actor, rule) ==
    IF rule.kind = "literal" THEN rule.value
    ELSE IF rule.unauthenticated /\ ~ActorTruthy(actor) THEN TRUE
    ELSE IF rule.except = {} /\ rule.keys = {} THEN FALSE
    ELSE /\ rule.except = {}
         /\ \A entry \in rule.keys : KeyMatches(actor, entry)

RECURSIVE Matches(_, _)
Matches(actor, rule) ==
    IF rule.kind = "literal" THEN rule.value
    ELSE IF rule.unauthenticated /\ ~ActorTruthy(actor) THEN TRUE
    ELSE IF rule.except = {} /\ rule.keys = {} THEN FALSE
    ELSE /\ \A nested \in rule.except : ~Matches(actor, nested)
         /\ \A entry \in rule.keys : KeyMatches(actor, entry)

----------------------------------------------------------------------------
(* Permission checks: Datasette.permission_allowed, ensure_permissions and  *)
(* the log of recent checks. A result is "True", "False", "None" or the     *)
(* default the caller passed                                                *)

BoolStr(b) == IF b THEN "True" ELSE "False"

\* bool(result)
ResultTruthy(result) == result \notin {"None", "False"}

\* The hooks a plugin may register, and what each answers
HookAnswer(hook, actor, permission, resource) ==
    CASE hook = "root_debug" ->
            IF permission = "permissions-debug" /\ ActorGet(actor, "id") = {"root"}
            THEN "True" ELSE "None"
      [] hook = "deny_anonymous" ->
            IF permission = "view-instance" /\ ~ActorTruthy(actor)
            THEN "False" ELSE "None"
      [] hook = "allow_all" -> "True"
      [] OTHER -> "None"

\* The first answer of the hooks, in registration order, that is not None
RECURSIVE FirstHookAnswer(_, _, _, _)
FirstHookAnswer(hooks, actor, permission, resource) ==
    IF hooks = <<>> THEN "None"
    ELSE LET answer == HookAnswer(Head(hooks), actor, permission, resource)
         IN  IF answer # "None" THEN answer
             ELSE FirstHookAnswer(Tail(hooks), actor, permission, resource)

\* The scopes of a resource, the most specific first: (r1, r2), (r1), instance
ResourceScopes(resource) ==
    [i \in 1..(Len(resource) + 1) |-> SubSeq(resource, 1, Len(resource) + 1 - i)]

\* The answer of the configured allow rules: the rule of the most specific
\* scope that has one, matched against the actor
ConfiguredAnswer(actor, permission, resource) ==
    LET scopes == ResourceScopes(resource)
        ruled == {i \in DOMAIN scopes :
                     \E e \in config : e.permission = permission /\ e.resource = scopes[i]}
    IN  IF ruled = {} THEN "None"
        ELSE LET first == CHOOSE i \in ruled : \A j \in ruled : i <= j
                 entry == CHOOSE e \in config :
                              e.permission = permission /\ e.resource = scopes[first]
             IN  BoolStr(Matches(actor, entry.rule))

\* The record permission_allowed logs, with the result it returns
CheckRecord(actor, permission, resource, default) ==
    LET hook == FirstHookAnswer(plugins, actor, permission, resource)
        configured == IF hook # "None" THEN "None"
                      ELSE ConfiguredAnswer(actor, permission, resource)
        answered == hook # "None" \/ configured # "None"
    IN  [actor |-> actor, permission |-> permission, resource |-> resource,
         used_default |-> ~answered,
         result |-> IF hook # "None" THEN hook
                    ELSE IF configured # "None" THEN configured
                    ELSE default]

\* A bounded log that refuses the new record when it is full
AppendCheckKeepsOldest(checks, record) ==
    IF Len(checks) >= ChecksCapacity THEN checks ELSE Append(checks, record)

\* deque(maxlen=...).append
AppendCheck(checks, record) ==
    LET appended == Append(checks, record)
    IN  IF Len(appended) > ChecksCapacity THEN Tail(appended) ELSE appended

\* The default of a permission when nothing answers
DefaultAllow(permission) == permission = "view-instance"

\* A check made by ensure_permissions passes
EnsurePasses(record) ==
    IF record.result = "None" THEN DefaultAllow(record.permission)
    ELSE ResultTruthy(record.result)

\* The checks ensure_permissions(actor, permissions) makes: one per permission,
\* with default None, up to and including the first that fails
RECURSIVE EnsureRecords(_, _)
EnsureRecords(actor, permissions) ==
    IF permissions = <<>> THEN <<>>
    ELSE LET record == CheckRecord(actor, Head(permissions), <<>>, "None")
         IN  IF EnsurePasses(record)
             THEN <<record>> \o EnsureRecords(actor, Tail(permissions))
             ELSE <<record>>

\* ensure_permissions raises Forbidden
EnsureFails(actor, permissions) ==
    LET records == EnsureRecords(actor, permissions)
    IN  records # <<>> /\ ~EnsurePasses(records[Len(records)])

RECURSIVE AppendChecks(_, _)
AppendChecks(checks, records) ==
    IF records = <<>> THEN checks
    ELSE AppendChecks(AppendCheck(checks, Head(records)), Tail(records))

\* list(reversed(sequence))
RECURSIVE Reversed(_)
Reversed(sequence) ==
    IF sequence = <<>> THEN <<>>
    ELSE Append(Reversed(Tail(sequence)), Head(sequence))

----------------------------------------------------------------------------
(* The views gated by ensure_permissions, and the ungated ones *)

\* Actors a request to a view may carry
ViewActors == {NoneActor, Actor({<<"id", "alice">>}), Actor({<<"id", "root">>})}

\* What every view but AuthTokenView leaves alone
ViewFrame ==
    /\ auth' = NoAuth
    /\ UNCHANGED <<root_token, startup_secret, hpc, hreq, hres, root_issued, now,
                   ticks, configuration>>

\* The gate of a view: ensure_permissions(request.actor, ["view-instance"])
Gate == <<"view-instance">>

\* JsonDataView.get without the gate
JsonDataGetNoEnsure(actor, format, needs_request) ==
    /\ UNCHANGED permission_checks
    /\ last' = Response("json_data", "GET", actor, NoPost, 200, "",
                        <<IF needs_request THEN "data_callback(request)"
                          ELSE "data_callback()",
                          IF format # {} THEN "json_response" ELSE "render">>,
                        [format |-> format,
                         headers |-> IF format # {} /\ cors
                                     THEN {"Access-Control-Allow-Origin"} ELSE {}])
    /\ ViewFrame

\* JsonDataView.get (/-/versions, /-/plugins, /-/actor, ...)
JsonDataGet(actor, format, needs_request) ==
    /\ permission_checks' = AppendChecks(permission_checks, EnsureRecords(actor, Gate))
    /\ last' =
          IF EnsureFails(actor, Gate)
          THEN Response("json_data", "GET", actor, NoPost, 403, "view-instance",
                        <<"ensure_permissions">>, [format |-> format, headers |-> {}])
          ELSE Response("json_data", "GET", actor, NoPost, 200, "",
                        <<"ensure_permissions",
                          IF needs_request THEN "data_callback(request)"
                          ELSE "data_callback()",
                          IF format # {} THEN "json_response" ELSE "render">>,
                        [format |-> format,
                         headers |-> IF format # {} /\ cors
                                     THEN {"Access-Control-Allow-Origin"} ELSE {}])
    /\ ViewFrame

\* PatternPortfolioView.get
PatternPortfolioGet(actor) ==
    /\ permission_checks' = AppendChecks(permission_checks, EnsureRecords(actor, Gate))
    /\ last' =
          IF EnsureFails(actor, Gate)
          THEN Response("patterns", "GET", actor, NoPost, 403, "view-instance",
                        <<"ensure_permissions">>, [template |-> ""])
          ELSE Response("patterns", "GET", actor, NoPost, 200, "",
                        <<"ensure_permissions", "render">>,
                        [template |-> "patterns.html"])
    /\ ViewFrame

\* LogoutView.get
LogoutGet(actor) ==
    /\ UNCHANGED permission_checks
    /\ last' =
          IF ~ActorTruthy(actor)
          THEN Response("logout", "GET", actor, NoPost, 302, "", <<"redirect">>,
                        [cookies |-> {}, messages |-> <<>>])
          ELSE Response("logout", "GET", actor, NoPost, 200, "", <<"render">>,
                        [cookies |-> {}, messages |-> <<>>])
    /\ ViewFrame

\* LogoutView.post
LogoutPost(actor) ==
    /\ UNCHANGED permission_checks
    /\ last' = Response("logout", "POST", actor, NoPost, 302, "",
                        <<"redirect", "set_cookie", "add_message">>,
                        [cookies |-> {[name |-> "ds_actor", value |-> "",
                                       expires |-> 0, max_age |-> 0]},
                         messages |-> <<<<"You are now logged out", "WARNING">>>>])
    /\ ViewFrame

\* The checks of PermissionsDebugView before anything else: ensure_permissions,
\* then permission_allowed(actor, "permissions-debug") if that passed
DebugGateRecords(actor) ==
    IF EnsureFails(actor, Gate) THEN EnsureRecords(actor, Gate)
    ELSE Append(EnsureRecords(actor, Gate),
                CheckRecord(actor, "permissions-debug", <<>>, "False"))

\* The message of the Forbidden the checks of PermissionsDebugView raise, or ""
DebugGateDenied(actor) ==
    IF EnsureFails(actor, Gate) THEN "view-instance"
    ELSE IF ~ResultTruthy(CheckRecord(actor, "permissions-debug", <<>>, "False").result)
    THEN "Permission denied"
    ELSE ""

\* The calls PermissionsDebugView made when its checks refuse the request
DebugGateCalls(actor) ==
    IF EnsureFails(actor, Gate) THEN <<"ensure_permissions">>
    ELSE <<"ensure_permissions", "permission_allowed">>

\* PermissionsDebugView.get showing the log in the order of the checks
PermissionsDebugGetNotReversed(actor) ==
    /\ permission_checks' = AppendChecks(permission_checks, DebugGateRecords(actor))
    /\ last' =
          IF DebugGateDenied(actor) # ""
          THEN Response("permissions_debug", "GET", actor, NoPost, 403,
                        DebugGateDenied(actor), DebugGateCalls(actor),
                        [permission_checks |-> <<>>])
          ELSE Response("permissions_debug", "GET", actor, NoPost, 200, "",
                        <<"ensure_permissions", "permission_allowed", "render">>,
                        [permission_checks |-> permission_checks'])
    /\ ViewFrame

\* PermissionsDebugView.get
PermissionsDebugGet(actor) ==
    /\ permission_checks' = AppendChecks(permission_checks, DebugGateRecords(actor))
    /\ last' =
          IF DebugGateDenied(actor) # ""
          THEN Response("permissions_debug", "GET", actor, NoPost, 403,
                        DebugGateDenied(actor), DebugGateCalls(actor),
                        [permission_checks |-> <<>>])
          ELSE Response("permissions_debug", "GET", actor, NoPost, 200, "",
                        <<"ensure_permissions", "permission_allowed", "render">>,
                        [permission_checks |-> Reversed(permission_checks')])
    /\ ViewFrame

\* json.loads of the actor field of a form: the actor (None for null), or
\* nothing when the text is not JSON
ActorTexts == {"null", "{\"id\": \"alice\"}", "{\"id\":"}

JsonLoadsActor(text) ==
    CASE text = "null" -> {NoneActor}
      [] text = "{}" -> {Actor({})}
      [] text = "{\"id\": \"alice\"}" -> {Actor({<<"id", "alice">>})}
      [] text = "{\"id\": \"root\"}" -> {Actor({<<"id", "root">>})}
      [] text = "{\"id\": \"\"}" -> {Actor({<<"id", "">>})}
      [] text = "{\"name\": \"carol\"}" -> {Actor({<<"name", "carol">>})}
      [] OTHER -> {}

\* The forms posted to /-/permissions
DebugForms ==
    [actor : ActorTexts, permission : {"view-table"},
     resource_1 : {"", "db"}, resource_2 : {"", "t"}]

\* The resource tuple built from the two fields
FormResource(form) ==
    (IF form.resource_1 # "" THEN <<form.resource_1>> ELSE <<>>)
    \o (IF form.resource_2 # "" THEN <<form.resource_2>> ELSE <<>>)

\* PermissionsDebugView.post passing no resource to the check
PermissionsDebugPostResourceDropped(actor, form) ==
    LET denied == DebugGateDenied(actor)
        parsed == JsonLoadsActor(form.actor)
        record == CheckRecord(CHOOSE a \in parsed : TRUE, form.permission,
                              <<>>, "USE_DEFAULT")
        gated == AppendChecks(permission_checks, DebugGateRecords(actor))
    IN  /\ permission_checks' =
              IF denied = "" /\ parsed # {} THEN AppendCheck(gated, record) ELSE gated
        /\ last' =
              IF denied # ""
              THEN Response("permissions_debug", "POST", actor, NoPost, 403, denied,
                            DebugGateCalls(actor), [result |-> {}])
              ELSE IF parsed = {}
              THEN Response("permissions_debug", "POST", actor, form, 500,
                            "JSONDecodeError",
                            <<"ensure_permissions", "permission_allowed", "post_vars">>,
                            [result |-> {}])
              ELSE Response("permissions_debug", "POST", actor, form, 200, "",
                            <<"ensure_permissions", "permission_allowed", "post_vars",
                              "permission_allowed", "json_response">>,
                            [result |-> {[actor |-> record.actor,
                                          permission |-> record.permission,
                                          resource |-> FormResource(form),
                                          result |-> record.result]}])
        /\ ViewFrame

\* PermissionsDebugView.post without the permissions-debug check
PermissionsDebugPostNoDebugCheck(actor, form) ==
    LET denied == IF EnsureFails(actor, Gate) THEN "view-instance" ELSE ""
        parsed == JsonLoadsActor(form.actor)
        record == CheckRecord(CHOOSE a \in parsed : TRUE, form.permission,
                              FormResource(form), "USE_DEFAULT")
        gated == AppendChecks(permission_checks, EnsureRecords(actor, Gate))
    IN  /\ permission_checks' =
              IF denied = "" /\ parsed # {} THEN AppendCheck(gated, record) ELSE gated
        /\ last' =
              IF denied # ""
              THEN Response("permissions_debug", "POST", actor, NoPost, 403, denied,
                            <<"ensure_permissions">>, [result |-> {}])
              ELSE IF parsed = {}
              THEN Response("permissions_debug", "POST", actor, form, 500,
                            "JSONDecodeError",
                            <<"ensure_permissions", "post_vars">>,
                            [result |-> {}])
              ELSE Response("permissions_debug", "POST", actor, form, 200, "",
                            <<"ensure_permissions", "post_vars",
                              "permission_allowed", "json_response">>,
                            [result |-> {[actor |-> record.actor,
                                          permission |-> record.permission,
                                          resource |-> record.resource,
                                          result |-> record.result]}])
        /\ ViewFrame

\* PermissionsDebugView.post
PermissionsDebugPost(actor, form) ==
    LET denied == DebugGateDenied(actor)
        parsed == JsonLoadsActor(form.actor)
        record == CheckRecord(CHOOSE a \in parsed : TRUE, form.permission,
                              FormResource(form), "USE_DEFAULT")
        gated == AppendChecks(permission_checks, DebugGateRecords(actor))
    IN  /\ permission_checks' =
              IF denied = "" /\ parsed # {} THEN AppendCheck(gated, record) ELSE gated
        /\ last' =
              IF denied # ""
              THEN Response("permissions_debug", "POST", actor, NoPost, 403, denied,
                            DebugGateCalls(actor), [result |-> {}])
              ELSE IF parsed = {}
              THEN Response("permissions_debug", "POST", actor, form, 500,
                            "JSONDecodeError",
                            <<"ensure_permissions", "permission_allowed", "post_vars">>,
                            [result |-> {}])
              ELSE Response("permissions_debug", "POST", actor, form, 200, "",
                            <<"ensure_permissions", "permission_allowed", "post_vars",
                              "permission_allowed", "json_response">>,
                            [result |-> {[actor |-> record.actor,
                                          permission |-> record.permission,
                                          resource |-> record.resource,
                                          result |-> record.result]}])
        /\ ViewFrame

\* JSON texts of allow rules with the rule each decodes to: some rules
\* without "except", and each of them nested in {"except": ...} once and twice
PlainAllowJson ==
    {<<"true", Literal(TRUE)>>,
     <<"false", Literal(FALSE)>>,
     <<"{}", MapRule(FALSE, {}, {})>>,
     <<"{\"id\": \"*\"}", MapRule(FALSE, {}, {<<"id", {"*"}>>})>>,
     <<"{\"id\": \"root\"}", MapRule(FALSE, {}, {<<"id", {"root"}>>})>>,
     <<"{\"id\": [\"root\", \"alice\"]}", MapRule(FALSE, {}, {<<"id", {"root", "alice"}>>})>>,
     <<"{\"unauthenticated\": true}", MapRule(TRUE, {}, {})>>}

ExceptJson(pair) ==
    <<"{\"except\": " \o pair[1] \o "}", MapRule(FALSE, {pair[2]}, {})>>

AllowJson ==
    LET once == {ExceptJson(pair) : pair \in PlainAllowJson}
        twice == {ExceptJson(pair) : pair \in once}
    IN  PlainAllowJson \cup once \cup twice

\* json.loads of the allow field: the rule, or nothing when it is not JSON
JsonLoadsAllow(text) == {pair[2] : pair \in {p \in AllowJson : p[1] = text}}

\* The ?actor= and ?allow= arguments of /-/allow-debug ("": absent)
AllowDebugActorArgs ==
    {"", "null", "{}", "{\"id\": \"alice\"}", "{\"id\": \"\"}",
     "{\"name\": \"carol\"}", "{\"id\":"}

AllowDebugAllowArgs == {"", "{\"id\":"} \cup {pair[1] : pair \in AllowJson}

\* AllowDebugView.get dropping the decode error of the allow text and
\* matching against the default rule instead
AllowDebugGetAllowErrorDropped(actor, actor_arg, allow_arg) ==
    LET actor_input == IF actor_arg # "" THEN actor_arg ELSE "{\"id\": \"root\"}"
        allow_input == IF allow_arg # "" THEN allow_arg ELSE "{\"id\": \"*\"}"
        actors == JsonLoadsActor(actor_input)
        allows == IF JsonLoadsAllow(allow_input) # {} THEN JsonLoadsAllow(allow_input)
                  ELSE JsonLoadsAllow("{\"id\": \"*\"}")
        errors == IF actors = {} THEN <<"Actor JSON error">> ELSE <<>>
    IN  /\ UNCHANGED permission_checks
        /\ last' = Response("allow_debug", "GET", actor,
                            [actor |-> actor_arg, allow |-> allow_arg], 200, "",
                            IF errors = <<>>
                            THEN <<"actor_matches_allow", "render">>
                            ELSE <<"render">>,
                            [result |-> IF errors = <<>>
                                        THEN {BoolStr(Matches(CHOOSE a \in actors : TRUE,
                                                              CHOOSE r \in allows : TRUE))}
                                        ELSE {},
                             error |-> errors])
        /\ ViewFrame

\* AllowDebugView.get with {"id": "root"} as the default rule
AllowDebugGetDefaultRuleRoot(actor, actor_arg, allow_arg) ==
    LET actor_input == IF actor_arg # "" THEN actor_arg ELSE "{\"id\": \"root\"}"
        allow_input == IF allow_arg # "" THEN allow_arg ELSE "{\"id\": \"root\"}"
        actors == JsonLoadsActor(actor_input)
        allows == JsonLoadsAllow(allow_input)
        errors == (IF actors = {} THEN <<"Actor JSON error">> ELSE <<>>)
                  \o (IF allows = {} THEN <<"Allow JSON error">> ELSE <<>>)
    IN  /\ UNCHANGED permission_checks
        /\ last' = Response("allow_debug", "GET", actor,
                            [actor |-> actor_arg, allow |-> allow_arg], 200, "",
                            IF errors = <<>>
                            THEN <<"actor_matches_allow", "render">>
                            ELSE <<"render">>,
                            [result |-> IF errors = <<>>
                                        THEN {BoolStr(Matches(CHOOSE a \in actors : TRUE,
                                                              CHOOSE r \in allows : TRUE))}
                                        ELSE {},
                             error |-> errors])
        /\ ViewFrame

\* AllowDebugView.get
AllowDebugGet(actor, actor_arg, allow_arg) ==
    LET actor_input == IF actor_arg # "" THEN actor_arg ELSE "{\"id\": \"root\"}"
        allow_input == IF allow_arg # "" THEN allow_arg ELSE "{\"id\": \"*\"}"
        actors == JsonLoadsActor(actor_input)
        allows == JsonLoadsAllow(allow_input)
        errors == (IF actors = {} THEN <<"Actor JSON error">> ELSE <<>>)
                  \o (IF allows = {} THEN <<"Allow JSON error">> ELSE <<>>)
    IN  /\ UNCHANGED permission_checks
        /\ last' = Response("allow_debug", "GET", actor,
                            [actor |-> actor_arg, allow |-> allow_arg], 200, "",
                            IF errors = <<>>
                            THEN <<"actor_matches_allow", "render">>
                            ELSE <<"render">>,
                            [result |-> IF errors = <<>>
                                        THEN {BoolStr(Matches(CHOOSE a \in actors : TRUE,
                                                              CHOOSE r \in allows : TRUE))}
                                        ELSE {},
                             error |-> errors])
        /\ ViewFrame

\* MessagesDebugView.get
MessagesDebugGet(actor) ==
    /\ permission_checks' = AppendChecks(permission_checks, EnsureRecords(actor, Gate))
    /\ last' =
          IF EnsureFails(actor, Gate)
          THEN Response("messages_debug", "GET", actor, NoPost, 403, "view-instance",
                        <<"ensure_permissions">>, [messages |-> <<>>])
          ELSE Response("messages_debug", "GET", actor, NoPost, 200, "",
                        <<"ensure_permissions", "render">>, [messages |-> <<>>])
    /\ ViewFrame

\* The forms posted to /-/messages: post.get(name) is None for an absent field
MessageForms ==
    [message : {{}, {"hello"}},
     message_type : {{}, {""}, {"INFO"}, {"ERROR"}, {"all"}, {"DEBUG"}}]

\* MessagesDebugView.post
MessagesDebugPost(actor, form) ==
    LET message == IF form.message = {} THEN "" ELSE CHOOSE m \in form.message : TRUE
        message_type == IF \E t \in form.message_type : t # ""
                        THEN CHOOSE t \in form.message_type : TRUE
                        ELSE "INFO"
    IN  /\ permission_checks' = AppendChecks(permission_checks, EnsureRecords(actor, Gate))
        /\ last' =
              IF EnsureFails(actor, Gate)
              THEN Response("messages_debug", "POST", actor, NoPost, 403, "view-instance",
                            <<"ensure_permissions">>, [messages |-> <<>>])
              ELSE IF message_type \notin {"INFO", "WARNING", "ERROR", "all"}
              THEN Response("messages_debug", "POST", actor, form, 500, "AssertionError",
                            <<"ensure_permissions", "post_vars">>, [messages |-> <<>>])
              ELSE IF message_type = "all"
              THEN Response("messages_debug", "POST", actor, form, 302, "",
                            <<"ensure_permissions", "post_vars", "add_message",
                              "add_message", "add_message", "redirect">>,
                            [messages |-> <<<<message, "INFO">>, <<message, "WARNING">>,
                                            <<message, "ERROR">>>>])
              ELSE Response("messages_debug", "POST", actor, form, 302, "",
                            <<"ensure_permissions", "post_vars", "add_message",
                              "redirect">>,
                            [messages |-> <<<<message, message_type>>>>])
        /\ ViewFrame

\* ApiExplorerView.get
ApiExplorerGet(actor) ==
    /\ UNCHANGED permission_checks
    /\ last' = Response("api_explorer", "GET", actor, NoPost, 200, "", <<"render">>,
                        [template |-> "api_explorer.html"])
    /\ ViewFrame

----------------------------------------------------------------------------
(* Initial state and specifications *)

NoRequest == [view |-> "none"]

\* The hook chains an instance may be constructed with
PluginChains ==
    {<<>>, <<"root_debug">>, <<"deny_anonymous", "root_debug">>,
     <<"root_debug", "allow_all">>, <<"deny_anonymous", "allow_all">>,
     <<"allow_all", "deny_anonymous">>}

\* The allow rules an instance may be configured with
Configs ==
    {{},
     {[permission |-> "view-instance", resource |-> <<>>,
       rule |-> MapRule(FALSE, {}, {<<"id", {"*"}>>})],
      [permission |-> "view-table", resource |-> <<"db">>,
       rule |-> MapRule(FALSE, {}, {<<"id", {"root", "alice"}>>})],
      [permission |-> "view-table", resource |-> <<"db", "t">>,
       rule |-> Literal(FALSE)]}}

\* An instance with the defaults: no plugin, no allow rule, no CORS
DefaultInstance == cors = FALSE /\ plugins = <<>> /\ config = {}

\* Times the process may start at
StartTimes == {0, 1000}

Init ==
    /\ startup_secret \in Secrets
    /\ root_token = startup_secret
    /\ hpc = [h \in Handlers |-> "idle"]
    /\ hreq = [h \in Handlers |-> NoArgs]
    /\ hres = [h \in Handlers |-> NoResponse]
    /\ root_issued = 0
    /\ now \in StartTimes
    /\ ticks = 0
    /\ allow_signed_tokens \in BOOLEAN
    /\ cors \in BOOLEAN
    /\ plugins \in PluginChains
    /\ config \in Configs
    /\ permission_checks = <<>>
    /\ auth = NoAuth
    /\ last = NoRequest

\* The state after construction, with the variables the root-token bootstrap
\* never reads fixed
InitBootstrap == Init /\ allow_signed_tokens /\ now = 0 /\ DefaultInstance

NextBootstrap ==
    \/ \E h \in Handlers, token \in PresentedTokens : AuthTokenArrive(h, token)
    \/ \E h \in Handlers : AuthTokenGet(h)
    \/ \E h \in Handlers : AuthTokenClose(h)

\* The state after construction, with the variables the token views never
\* read fixed
InitTokens == Init /\ startup_secret = "f3a9" /\ DefaultInstance

NextTokens ==
    \/ \E actor \in TokenRequestActors : CreateTokenGet(actor)
    \/ \E actor \in TokenRequestActors : CreateTokenPostBegin(actor)
    \/ \E post \in PostVars : CreateTokenPostForm(post)

\* The token creation view over every form
SpecTokens == InitTokens /\ [][NextTokens]_vars

\* Logged-in actors, with and without the token marker
ExpiryActors ==
    {Actor({<<"id", "alice">>}), Actor({<<"id", "alice">>, <<"token", "dstok">>})}

\* Forms with no, a valid and an invalid expiry
ExpiryForms ==
    {f \in PostVars :
        /\ f.expire_type \subseteq {"minutes", "hours", "fortnights"}
        /\ f.expire_duration \in {{<<"1">>}, {<<"0">>}}}

InitExpiry ==
    Init /\ startup_secret = "f3a9" /\ allow_signed_tokens /\ now = 0 /\ DefaultInstance

NextExpiry ==
    \/ \E actor \in ExpiryActors : CreateTokenPostBegin(actor)
    \/ \E post \in ExpiryForms : CreateTokenPostForm(post)
    \/ \E token \in BearerCandidates : PresentBearer(token)
    \/ \E seconds \in TickSteps : Tick(seconds)

\* Tokens are issued and presented while time passes
SpecExpiry == InitExpiry /\ [][NextExpiry]_vars

NextCredentials ==
    \/ NextBootstrap
    \/ \E actor \in ExpiryActors : CreateTokenPostBegin(actor)
    \/ \E post \in ExpiryForms : CreateTokenPostForm(post)
    \/ \E token \in BearerCandidates : PresentBearer(token)
    \/ \E value \in CookieCandidates : PresentCookie(value)

\* The two flows that sign: the root cookie and the API tokens
SpecCredentials == InitExpiry /\ [][NextCredentials]_vars

\* The instances the views are checked on: the default one, one whose plugins
\* refuse anonymous requests and let root debug, and one with allow rules
ViewInstances ==
    {[cors |-> FALSE, plugins |-> <<>>, config |-> {}],
     [cors |-> TRUE, plugins |-> <<"deny_anonymous", "root_debug">>, config |-> {}]}
    \cup {[cors |-> FALSE, plugins |-> <<"root_debug">>, config |-> c] :
             c \in Configs \ {{}}}

InitViews ==
    /\ Init
    /\ startup_secret = "f3a9" /\ allow_signed_tokens /\ now = 0
    /\ [cors |-> cors, plugins |-> plugins, config |-> config] \in ViewInstances

\* A form of each kind for /-/permissions, /-/messages and /-/create-token
ViewsDebugForms == {f \in DebugForms : f.resource_1 = "db" /\ f.resource_2 = "t"}

ViewsMessageForms ==
    {f \in MessageForms : f.message = {"hello"} /\ f.message_type \in {{}, {"all"}, {"DEBUG"}}}

ViewsTokenForms ==
    {f \in ExpiryForms : f.expire_duration = {<<"1">>} /\ f.expire_type \subseteq {"hours"}}

NextViews ==
    \/ \E actor \in ViewActors, format \in {{}, {"json"}}, needs_request \in BOOLEAN :
          JsonDataGet(actor, format, needs_request)
    \/ \E actor \in ViewActors : PatternPortfolioGet(actor)
    \/ \E actor \in ViewActors : LogoutGet(actor)
    \/ \E actor \in ViewActors : LogoutPost(actor)
    \/ \E actor \in ViewActors : PermissionsDebugGet(actor)
    \/ \E actor \in ViewActors, form \in ViewsDebugForms : PermissionsDebugPost(actor, form)
    \/ \E actor \in ViewActors, actor_arg \in {"", "{\"id\":"}, allow_arg \in {"", "true"} :
          AllowDebugGet(actor, actor_arg, allow_arg)
    \/ \E actor \in ViewActors : MessagesDebugGet(actor)
    \/ \E actor \in ViewActors, form \in ViewsMessageForms : MessagesDebugPost(actor, form)
    \/ \E actor \in ViewActors : ApiExplorerGet(actor)
    \/ \E actor \in ViewActors : CreateTokenGet(actor)
    \/ \E actor \in ViewActors : CreateTokenPostBegin(actor)
    \/ \E post \in ViewsTokenForms : CreateTokenPostForm(post)

\* Every view but the root-token bootstrap
SpecViews == InitViews /\ [][NextViews]_vars

\* The instances the evaluator is checked on: hooks that answer and hooks that
\* pass, in both orders, with and without allow rules
EvaluatorInstances ==
    {[plugins |-> <<"root_debug">>, config |-> {}],
     [plugins |-> <<"deny_anonymous", "allow_all">>, config |-> {}],
     [plugins |-> <<"allow_all", "deny_anonymous">>, config |-> {}]}
    \cup {[plugins |-> p, config |-> c] :
             p \in {<<"root_debug">>, <<"root_debug", "allow_all">>},
             c \in Configs \ {{}}}

InitEvaluator ==
    /\ Init
    /\ startup_secret = "f3a9" /\ allow_signed_tokens /\ now = 0 /\ cors = FALSE
    /\ [plugins |-> plugins, config |-> config] \in EvaluatorInstances

\* The forms the evaluator is asked through
EvaluatorForms ==
    [actor : {"null", "{\"id\": \"alice\"}", "{\"name\": \"carol\"}"},
     permission : {"view-instance", "view-table"},
     resource_1 : {"", "db"}, resource_2 : {"", "t"}]

NextEvaluator ==
    \/ \E actor \in ViewActors, form \in EvaluatorForms : PermissionsDebugPost(actor, form)
    \/ \E actor \in ViewActors : PermissionsDebugGet(actor)

\* The permissions-debug tool over hooks, allow rules and forms
SpecEvaluator == InitEvaluator /\ [][NextEvaluator]_vars

InitAllowDebug == InitViews /\ DefaultInstance

NextAllowDebug ==
    \E actor \in ViewActors, actor_arg \in AllowDebugActorArgs,
       allow_arg \in AllowDebugAllowArgs :
        AllowDebugGet(actor, actor_arg, allow_arg)

\* The allow-debug tool over every pair of arguments
SpecAllowDebug == InitAllowDebug /\ [][NextAllowDebug]_vars

\* The root-token bootstrap alone
SpecBootstrap == InitBootstrap /\ [][NextBootstrap]_vars

----------------------------------------------------------------------------
(* Properties of the root-token bootstrap *)

\* The requests that were answered and whose answer is still held
Answered == {h \in Handlers : hpc[h] = "done"}

\* Handler h is answered in this step
Answers(h) == hpc[h] = "received" /\ hpc'[h] = "done"

\* The cookie of a response resolves to the root actor
YieldsRoot(response) ==
    /\ response.status = 302
    /\ \E c \in response.cookies :
          /\ c.name = "ds_actor"
          /\ Unsign(c.value, "actor") = {[a |-> [id |-> "root"]]}

C1Step ==
    \A h \in Handlers :
        Answers(h) =>
            IF hreq[h].token = startup_secret /\ root_issued = 0
            THEN YieldsRoot(hres'[h]) /\ root_issued' = 1
            ELSE /\ hres'[h].status # 302
                 /\ hres'[h].cookies = {}
                 /\ root_issued' = root_issued
                 /\ root_issued >= 1 => hres'[h].status = 403

\* C1: the first presentation of the startup secret is answered with the
\* ds_actor cookie of {id: "root"}; every presentation answered after it,
\* with the secret or any other value, is answered Forbidden without a
\* cookie, and no other presentation yields a cookie, so at most one root
\* actor is issued.
C1_RootSingleUse == [][C1Step /\ root_issued' <= 1]_vars

\* The secret was used, and a later presentation of the same secret failed
C1_Witness ==
    /\ root_issued = 1
    /\ \E h \in Answered :
          /\ hreq[h].token = startup_secret
          /\ ~hreq[h].valid_on_arrival
          /\ hres[h].status = 403

\* C2: of the requests in flight that present the secret, at most one is
\* answered with the root cookie, whatever the order in which the handlers
\* run; each other one is answered Forbidden.
C2_AtMostOneSucceeds ==
    /\ Cardinality({h \in Handlers : hres[h].status = 302}) <= 1
    /\ \A h \in Answered :
          (hreq[h].token = startup_secret /\ hres[h].status # 302)
              => hres[h].status = 403 /\ hres[h].cookies = {}

\* Two requests arrived with the secret while it was valid; one got the
\* cookie and the other was refused
C2_Witness ==
    \E h1, h2 \in Answered :
        /\ h1 # h2
        /\ hreq[h1].valid_on_arrival /\ hreq[h2].valid_on_arrival
        /\ hres[h1].status = 302
        /\ hres[h2].status = 403

C8Step ==
    \A h \in Handlers :
        (Answers(h) /\ hres'[h].status # 302
            /\ (root_token = None \/ hreq[h].token \notin NonAsciiTokens)) =>
            /\ hres'[h].status = 403
            /\ hres'[h].cookies = {}
            /\ hres'[h].error =
                  IF root_token = None
                  THEN "Root token has already been used"
                  ELSE "Invalid token"

C16Step ==
    /\ \A h \in Handlers :
          /\ (Answers(h) /\ hreq[h].token # root_token) =>
                /\ hres'[h].status = 403
                /\ hres'[h].cookies = {}
                /\ root_token' = root_token
          /\ (Answers(h) /\ hreq[h].token = startup_secret /\ root_issued = 0) =>
                YieldsRoot(hres'[h])
    /\ root_token' # root_token =>
          \E h \in Handlers : Answers(h) /\ YieldsRoot(hres'[h])
    /\ root_issued = 0 => root_token = startup_secret

\* C16: a presentation of any value other than the current secret (the empty
\* string of an absent ?token= included) is answered Forbidden and leaves the
\* secret unchanged, so that the correct secret presented later still yields
\* the root actor; the secret changes only in the step that issues the root
\* cookie.
C16_FailedPresentationKeepsSecret == [][C16Step]_vars

----------------------------------------------------------------------------
(* Properties of token creation *)

\* The last request went to CreateTokenView and was answered
TokenRequest == last.view = "create_token" /\ last.status # 0

\* The form of the last request was read
FormRead == TokenRequest /\ last.method = "POST" /\ last.status # 403

\* A token was signed for the last request
TokenSigned ==
    \/ last.ctx.token # {}
    \/ last.ctx.token_bits # {}
    \/ \E i \in 1..Len(last.calls) : last.calls[i] = "sign"

\* C3: a request to the token creation view (GET or POST) whose actor carries
\* a truthy token marker fails with Forbidden and signs nothing, and so does
\* one when signed tokens are disabled, when there is no actor or when the
\* actor has no id; a token is only ever issued to a present actor with an id
\* and without a (truthy) token marker.
C3_NoTokenFromToken ==
    TokenRequest =>
        LET a == last.actor
            hasId == \E v \in ActorGet(a, "id") : v # ""
            hasMarker == \E v \in ActorGet(a, "token") : v # ""
            present == ~a.none /\ a.attrs # {}
        IN  /\ (hasMarker \/ ~allow_signed_tokens \/ ~present \/ ~hasId)
                  => (last.status = 403 /\ last.error # "" /\ ~TokenSigned)
            /\ TokenSigned => (present /\ hasId /\ ~hasMarker /\ allow_signed_tokens)
            /\ last.method = "GET" => ~TokenSigned

\* A token-authenticated actor with an id posted to the view and was refused
C3_Witness ==
    /\ TokenRequest
    /\ last.method = "POST"
    /\ allow_signed_tokens
    /\ ActorGet(last.actor, "id") = {"alice"}
    /\ ActorGet(last.actor, "token") = {"dstok"}
    /\ last.status = 403
    /\ last.error = "Token authentication cannot be used to create additional tokens"

\* The units a duration may be given in
DurationUnits == {"minutes", "hours", "days"}

\* The form asks for a duration
DurationRequested(post) == \E u \in post.expire_type : u # ""

\* The count of the form is a positive integer in decimal digits
CountIsPositiveInteger(post) ==
    \E s \in post.expire_duration :
        /\ Len(s) > 0
        /\ \A i \in 1..Len(s) : s[i] \in {"0", "1"}
        /\ \E i \in 1..Len(s) : s[i] # "0"

\* C4: when a duration is requested with a count that is not a positive
\* integer, or with a unit outside minutes, hours and days, the answer is a
\* non-empty list of error messages, not an exception, and no token and no
\* payload is produced; a token is produced exactly when the list is empty.
C4_ValidationErrorsAbort ==
    FormRead =>
        /\ (DurationRequested(last.post)
              /\ (~CountIsPositiveInteger(last.post)
                    \/ ~(last.post.expire_type \subseteq DurationUnits)))
             => /\ last.status = 200
                /\ last.ctx.errors # <<>>
                /\ ~TokenSigned
        /\ last.status = 200 => ((last.ctx.token # {}) <=> (last.ctx.errors = <<>>))

\* The value of a string of the digits 0 and 1 read in base ten
RECURSIVE CountValue(_)
CountValue(s) ==
    IF s = <<>> THEN 0
    ELSE (IF Head(s) = "1" THEN 10 ^ (Len(s) - 1) ELSE 0) + CountValue(Tail(s))

\* C5: for a unit among minutes, hours, days and a positive integer count the
\* payload of the issued token stores count*60, count*3600 and count*86400
\* seconds respectively, with the id of the requesting actor and the time of
\* issue; a stored duration is always a positive integer.
C5_DurationConversion ==
    FormRead =>
        /\ (/\ last.post.expire_type \subseteq DurationUnits
            /\ last.post.expire_type # {}
            /\ CountIsPositiveInteger(last.post))
             => \E u \in last.post.expire_type, s \in last.post.expire_duration :
                  LET n == CountValue(s)
                      seconds == CASE u = "minutes" -> n * 60
                                   [] u = "hours" -> n * 3600
                                   [] u = "days" -> n * 86400
                      bits == [a |-> CHOOSE v \in ActorGet(last.actor, "id") : TRUE,
                               t |-> last.at,
                               d |-> {seconds}]
                  IN  /\ last.status = 200
                      /\ last.ctx.token_bits = {bits}
                      /\ last.ctx.token = {[prefix |-> "dstok_", signed |-> Sign(bits, "token")]}
                      /\ last.at = now
        /\ \A b \in last.ctx.token_bits : \A d \in b.d : d \in Nat /\ d > 0

\* A token for ten hours was issued
C5_Witness ==
    /\ FormRead
    /\ last.post.expire_type = {"hours"}
    /\ last.post.expire_duration = {<<"1", "0">>}
    /\ last.at = 1000
    /\ \E b \in last.ctx.token_bits : b.d = {36000} /\ b.t = 1000 /\ b.a = "alice"

\* C17: the payload of an issued token has a duration exactly when the form
\* named a non-empty unit with a count that is a positive integer; when the
\* form names no unit the count is neither validated nor used: whatever it
\* is, no error is reported and the token is issued without a duration.
C17_ExpiryOnlyWhenRequested ==
    FormRead =>
        /\ \A b \in last.ctx.token_bits :
              (b.d # {}) <=> (DurationRequested(last.post) /\ CountIsPositiveInteger(last.post))
        /\ ~DurationRequested(last.post) =>
              /\ last.status = 200
              /\ last.ctx.errors = <<>>
              /\ \E b \in last.ctx.token_bits :
                    /\ b.d = {}
                    /\ last.ctx.token = {[prefix |-> "dstok_", signed |-> Sign(b, "token")]}

\* A form without a unit and with a count that is no integer was answered
\* with a token without a duration
C17_Witness ==
    /\ FormRead
    /\ last.post.expire_type = {}
    /\ last.post.expire_duration = {<<"sup2">>}
    /\ last.status = 200
    /\ last.ctx.errors = <<>>
    /\ \E b \in last.ctx.token_bits : b.d = {} /\ b.a = "alice"

----------------------------------------------------------------------------
(* Properties of token expiry and of the signing namespaces *)

\* The token of the last request was presented in this state
IssuedTokenPresented ==
    /\ auth.kind = "bearer"
    /\ FormRead
    /\ auth.token \in last.ctx.token

C6Inv ==
    (/\ IssuedTokenPresented
     /\ last.post.expire_type \subseteq DurationUnits
     /\ last.post.expire_type # {})
      => \E u \in last.post.expire_type, s \in last.post.expire_duration :
           LET n == CountValue(s)
               d == CASE u = "minutes" -> n * 60
                      [] u = "hours" -> n * 3600
                      [] u = "days" -> n * 86400
               actor == Actor({<<"id", CHOOSE v \in ActorGet(last.actor, "id") : TRUE>>,
                               <<"token", "dstok">>})
           IN  /\ auth.at <= last.at + d - 1 => auth.actor = {actor}
               /\ auth.at >= last.at + d + 1 => auth.actor = {}

C6Step ==
    \A token \in HeldTokens :
        (last' = last /\ Resolve(token, now) = {}) => Resolve(token, now') = {}

\* C6: a token issued with a duration of d seconds resolves to its actor at
\* every time up to issued_at + d - 1 and to no actor at every time from
\* issued_at + d + 1 on, and once it has failed to resolve it never resolves
\* again as time advances.
C6_Expiry == []C6Inv /\ [][C6Step]_vars

\* A token of one hour for alice was presented 3601 seconds after its issue
\* and resolved to no actor
C6_Witness ==
    /\ IssuedTokenPresented
    /\ last.post.expire_type = {"hours"}
    /\ last.post.expire_duration = {<<"1">>}
    /\ ActorGet(last.actor, "id") = {"alice"}
    /\ auth.at = last.at + 3601
    /\ auth.actor = {}

\* C7: a value signed under "actor" (the ds_actor cookie of the bootstrap)
\* never verifies under "token", and a token signed under "token" never
\* verifies under "actor": no output of one flow is accepted as a credential
\* of the other.
C7_CrossNamespaceRejection ==
    /\ \A v \in HeldCookies :
          /\ Unsign(v, "token") = {}
          /\ Resolve([prefix |-> "dstok_", signed |-> v], now) = {}
    /\ \A t \in HeldTokens :
          /\ Unsign(t.signed, "actor") = {}
          /\ ActorFromCookie(t.signed) = {}
    /\ (auth.kind = "bearer" /\ auth.token.signed \in HeldCookies) => auth.actor = {}
    /\ (auth.kind = "cookie" /\ auth.token.signed \in {t.signed : t \in HeldTokens})
          => auth.actor = {}

\* The root cookie was presented as a bearer token, and a token as a cookie
C7_Witness ==
    /\ auth.kind = "bearer"
    /\ auth.token.prefix = "dstok_"
    /\ auth.token.signed \in HeldCookies
    /\ auth.actor = {}
    /\ HeldTokens # {}

----------------------------------------------------------------------------
(* Properties of the gate and of the log of permission checks *)

\* The permission a check of the PermissionsDebugView gate is about
DebugGatePermission(i) == IF i = 1 THEN "view-instance" ELSE "permissions-debug"

\* The log after the request is the log before it with `added` checks of the
\* requester appended, the oldest records dropped beyond the capacity
LogGrewByGateChecks(actor, added) ==
    LET old == permission_checks
        new == permission_checks'
        n == Len(new)
        fresh == IF added < n THEN added ELSE n
        kept == n - fresh
    IN  /\ n = (IF Len(old) + added < ChecksCapacity
                THEN Len(old) + added ELSE ChecksCapacity)
        /\ \A i \in 1..kept : new[i] = old[Len(old) - kept + i]
        /\ \A j \in 1..fresh :
              /\ new[kept + j].actor = actor
              /\ new[kept + j].resource = <<>>
              /\ new[kept + j].permission = DebugGatePermission(added - fresh + j)

C9Step ==
    \A actor \in {a \in ViewActors : last'.view = "permissions_debug" /\ a = last'.actor} :
        PermissionsDebugGet(actor) =>
            LET shown == last'.ctx.permission_checks
                new == permission_checks'
                refused_at_gate == last'.status = 403 /\ last'.error = "view-instance"
            IN  /\ LogGrewByGateChecks(actor, IF refused_at_gate THEN 1 ELSE 2)
                /\ last'.status = 200 =>
                      /\ Len(shown) = Len(new)
                      /\ \A i \in 1..Len(new) : shown[i] = new[Len(new) + 1 - i]
                /\ last'.status # 200 => shown = <<>>

\* C9 (amended): the permissions-debug read shows the recorded checks
\* most-recent-first, and taking that snapshot changes nothing; but serving
\* the request itself appends the requester's own gate checks to the log (the
\* view-instance check and, when it passes, the permissions-debug check),
\* dropping the oldest records beyond the capacity and keeping the others in
\* order; the snapshot shown includes these new checks.
C9_ReadShowsLogWithOwnChecks == [][C9Step]_vars

\* The log was shown full, the requester's own permissions-debug check first
C9_Witness ==
    /\ last.view = "permissions_debug" /\ last.method = "GET" /\ last.status = 200
    /\ Len(last.ctx.permission_checks) = ChecksCapacity
    /\ last.ctx.permission_checks[1].permission = "permissions-debug"
    /\ last.ctx.permission_checks[2].permission = "view-instance"
    /\ permission_checks[Len(permission_checks)] = last.ctx.permission_checks[1]

\* C9 as claimed: serving the permissions-debug read leaves the log of
\* permission checks exactly as it was before the request
C9_ReadLeavesLogUnchanged ==
    [][\A actor \in {a \in ViewActors : last'.view = "permissions_debug" /\ a = last'.actor} :
          PermissionsDebugGet(actor) => permission_checks' = permission_checks]_vars

\* The views whose handlers start with ensure_permissions
GatedViews == {"json_data", "patterns", "permissions_debug", "messages_debug"}

\* The calls of the last request that serve or change something
Effects(calls) ==
    {i \in 1..Len(calls) : calls[i] \notin {"ensure_permissions", "check_permission"}}

\* C10 (amended): the handlers of JsonDataView, PatternPortfolioView,
\* PermissionsDebugView and MessagesDebugView call ensure_permissions first,
\* and when it fails the request ends in Forbidden with no data callback run,
\* no message added, no cookie set and nothing rendered; the handlers of
\* LogoutView, AllowDebugView, CreateTokenView and ApiExplorerView (and
\* AuthTokenView) never call it.
C10_GateOfGatedViews ==
    last.view # "none" =>
        IF last.view \in GatedViews
        THEN /\ Head(last.calls) = "ensure_permissions"
             /\ EnsureFails(last.actor, <<"view-instance">>)
                   => /\ last.status = 403
                      /\ Effects(last.calls) = {}
             /\ ~EnsureFails(last.actor, <<"view-instance">>)
                   => ~(last.status = 403 /\ last.error = "view-instance")
        ELSE \A i \in 1..Len(last.calls) : last.calls[i] # "ensure_permissions"

\* An anonymous request to a JSON data view was refused at the gate
C10_Witness ==
    /\ last.view = "json_data"
    /\ last.actor = NoneActor
    /\ EnsureFails(last.actor, <<"view-instance">>)
    /\ last.status = 403
    /\ last.calls = <<"ensure_permissions">>

\* C10 as claimed: every view handler evaluates ensure_permissions first, and
\* when it fails the request ends in Forbidden without any effect
C10_EveryViewGated ==
    last.view # "none" =>
        /\ Head(last.calls) = "ensure_permissions"
        /\ EnsureFails(last.actor, <<"view-instance">>)
              => /\ last.status = 403
                 /\ Effects(last.calls) = {}

----------------------------------------------------------------------------
(* Properties of the allow-debug tool and of the matcher it exposes *)

\* The last request went to AllowDebugView
AllowDebugRequest == last.view = "allow_debug"

\* The JSON texts a request to AllowDebugView decodes, the defaults included
ActorInput(request) ==
    IF request.post.actor # "" THEN request.post.actor ELSE "{\"id\": \"root\"}"

AllowInput(request) ==
    IF request.post.allow # "" THEN request.post.allow ELSE "{\"id\": \"*\"}"

\* The matcher was invoked for the last request
MatcherInvoked == \E i \in 1..Len(last.calls) : last.calls[i] = "actor_matches_allow"

\* C11: in the allow-debug tool, when the actor text or the allow text (or
\* both) does not decode as JSON, a message for each failure is in the error
\* output, the matcher is not invoked and the result is absent; the matcher
\* is invoked, and the result is that of matching the decoded actor against
\* the decoded rule, exactly when both texts decode.
C11_DecodeFailureSkipsEvaluation ==
    AllowDebugRequest =>
        LET actors == JsonLoadsActor(ActorInput(last))
            allows == JsonLoadsAllow(AllowInput(last))
            errors == last.ctx.error
        IN  /\ last.status = 200
            /\ (actors = {}) <=> (\E i \in 1..Len(errors) : errors[i] = "Actor JSON error")
            /\ (allows = {}) <=> (\E i \in 1..Len(errors) : errors[i] = "Allow JSON error")
            /\ Len(errors) = (IF actors = {} THEN 1 ELSE 0) + (IF allows = {} THEN 1 ELSE 0)
            /\ (actors = {} \/ allows = {}) => (~MatcherInvoked /\ last.ctx.result = {})
            /\ MatcherInvoked <=> (actors # {} /\ allows # {})
            /\ (actors # {} /\ allows # {}) =>
                  \E a \in actors, r \in allows :
                      last.ctx.result = {IF Matches(a, r) THEN "True" ELSE "False"}

\* The allow text did not decode while the actor text did: one message, no
\* result
C11_Witness ==
    /\ AllowDebugRequest
    /\ last.post.actor = "{\"id\": \"alice\"}"
    /\ last.post.allow = "{\"id\":"
    /\ last.ctx.error = <<"Allow JSON error">>
    /\ last.ctx.result = {}
    /\ last.calls = <<"render">>

\* The result shown for a request, negated
NegatedResult(request) ==
    {IF r = "True" THEN "False" ELSE "True" : r \in request.ctx.result}

\* Two requests to the tool in a row: the same actor text, and the rule of
\* the second is {"except": R} for the rule R of the first
C14Step ==
    (/\ last.view = "allow_debug" /\ last'.view = "allow_debug"
     /\ ActorInput(last') = ActorInput(last)
     /\ JsonLoadsActor(ActorInput(last)) # {}
     /\ JsonLoadsAllow(AllowInput(last)) # {}
     /\ AllowInput(last') = "{\"except\": " \o AllowInput(last) \o "}")
      => /\ last.ctx.result # {}
         /\ last'.ctx.result = NegatedResult(last)

\* C14: for every actor A, the absent and the empty one included, and every
\* rule R, matching A against {"except": R} gives the negation of matching A
\* against R.
C14_Negation == [][C14Step]_vars

\* The absent actor matches {"unauthenticated": true} nested twice in
\* "except", and its rule nested once lies in between
C14_Witness ==
    /\ AllowDebugRequest
    /\ last.post.actor = "null"
    /\ last.post.allow = "{\"except\": {\"except\": {\"unauthenticated\": true}}}"
    /\ last.ctx.result = {"True"}
    /\ last.calls = <<"actor_matches_allow", "render">>

\* "id" is a key of the actor a JSON text decodes to
HasIdKey(actor) == ~actor.none /\ \E item \in actor.attrs : item[1] = "id"

\* C15: against the rule {"id": "*"}, which the allow-debug tool uses when no
\* rule is given, an actor matches exactly when "id" is one of its keys,
\* whatever the value; the absent and the empty actor do not match.
C15_WildcardRequiresPresence ==
    (/\ AllowDebugRequest
     /\ last.post.allow \in {"", "{\"id\": \"*\"}"}
     /\ JsonLoadsActor(ActorInput(last)) # {})
      => \E a \in JsonLoadsActor(ActorInput(last)) :
            /\ last.ctx.result = {IF HasIdKey(a) THEN "True" ELSE "False"}
            /\ (a.none \/ a.attrs = {}) => last.ctx.result = {"False"}

\* An actor whose id is the empty string matched the default rule
C15_Witness ==
    /\ AllowDebugRequest
    /\ last.post.actor = "{\"id\": \"\"}"
    /\ last.post.allow = ""
    /\ last.ctx.result = {"True"}

----------------------------------------------------------------------------
(* Properties of the permission evaluator and of its log *)

\* The last request is an evaluation the permissions-debug tool answered
EvaluationShown ==
    last.view = "permissions_debug" /\ last.method = "POST" /\ last.status = 200

\* The resource of a form: the segments that are not empty, in order
SubmittedResource(form) ==
    IF form.resource_1 # "" /\ form.resource_2 # "" THEN <<form.resource_1, form.resource_2>>
    ELSE IF form.resource_1 # "" THEN <<form.resource_1>>
    ELSE IF form.resource_2 # "" THEN <<form.resource_2>>
    ELSE <<>>

\* The allow rules configured for a permission at a scope
RulesAt(permission, scope) ==
    {e.rule : e \in {c \in config : c.permission = permission /\ c.resource = scope}}

\* The rules of the most specific scope of the resource that has any
ApplicableRules(permission, resource) ==
    IF RulesAt(permission, resource) # {} THEN RulesAt(permission, resource)
    ELSE IF Len(resource) = 2 /\ RulesAt(permission, <<resource[1]>>) # {}
    THEN RulesAt(permission, <<resource[1]>>)
    ELSE RulesAt(permission, <<>>)

\* C12: the result of an evaluation is the answer of the first hook, in
\* registration order, that does not answer None; if every hook answers
\* None, the outcome of the configured allow rule of the most specific scope;
\* if there is none, the caller's default. So a hook answering true
\* overrides a configured deny rule, and a hook answering None falls through
\* to the configured rules.
C12_EvaluatorPrecedence ==
    EvaluationShown =>
        \E a \in JsonLoadsActor(last.post.actor), shown \in last.ctx.result :
            LET permission == last.post.permission
                resource == SubmittedResource(last.post)
                answering == {i \in 1..Len(plugins) :
                                 HookAnswer(plugins[i], a, permission, resource) # "None"}
                rules == ApplicableRules(permission, resource)
            IN  /\ shown.actor = a /\ shown.permission = permission
                /\ shown.resource = resource
                /\ \A i \in answering :
                      (\A j \in answering : i <= j) =>
                          shown.result = HookAnswer(plugins[i], a, permission, resource)
                /\ (answering = {} /\ rules # {}) =>
                      \E rule \in rules :
                          shown.result = (IF Matches(a, rule) THEN "True" ELSE "False")
                /\ (answering = {} /\ rules = {}) => shown.result = "USE_DEFAULT"

\* A hook answered true for a table whose configured rule denies everyone
C12_Witness ==
    /\ EvaluationShown
    /\ plugins = <<"root_debug", "allow_all">>
    /\ RulesAt("view-table", <<"db", "t">>) = {Literal(FALSE)}
    /\ last.post.actor = "{\"id\": \"alice\"}"
    /\ last.post.permission = "view-table"
    /\ last.post.resource_1 = "db" /\ last.post.resource_2 = "t"
    /\ \E shown \in last.ctx.result : shown.result = "True"

\* The evaluations a handler made, in order: the positions of its calls of
\* ensure_permissions (one permission each) and permission_allowed
RECURSIVE EvaluateCalls(_)
EvaluateCalls(calls) ==
    IF calls = <<>> THEN 0
    ELSE (IF Head(calls) \in {"ensure_permissions", "permission_allowed"} THEN 1 ELSE 0)
         + EvaluateCalls(Tail(calls))

\* What the k-th evaluation of a request was about: the gate evaluates
\* view-instance, PermissionsDebugView then permissions-debug, both for the
\* requester; its third evaluation is the one the form asks for
EvaluationAbout(request, k, record) ==
    IF k = 1
    THEN record.actor = request.actor /\ record.permission = "view-instance"
         /\ record.resource = <<>>
    ELSE IF k = 2
    THEN record.actor = request.actor /\ record.permission = "permissions-debug"
         /\ record.resource = <<>>
    ELSE /\ record.actor \in JsonLoadsActor(request.post.actor)
         /\ record.permission = request.post.permission
         /\ record.resource = SubmittedResource(request.post)

C13Step ==
    LET old == permission_checks
        new == permission_checks'
        added == IF last'.view = "none" THEN 0 ELSE EvaluateCalls(last'.calls)
        n == Len(new)
        fresh == IF added < n THEN added ELSE n
        kept == n - fresh
    IN  /\ n = (IF Len(old) + added < ChecksCapacity
                THEN Len(old) + added ELSE ChecksCapacity)
        /\ \A i \in 1..kept : new[i] = old[Len(old) - kept + i]
        /\ \A j \in 1..fresh : EvaluationAbout(last', added - fresh + j, new[kept + j])

\* C13: the log of permission checks never holds more records than its
\* capacity; every evaluation a handler makes, whatever its outcome, appends
\* exactly one record; when the log is full the oldest records are dropped,
\* so the log holds the most recent evaluations in the order they were made.
C13_BoundedLog ==
    /\ [](Len(permission_checks) <= ChecksCapacity)
    /\ [][C13Step]_vars

\* The log is full after a request that made three evaluations, the newest
\* record being the evaluation the form asked for and refused
C13_Witness ==
    /\ EvaluationShown
    /\ Len(permission_checks) = ChecksCapacity
    /\ EvaluateCalls(last.calls) = 3
    /\ permission_checks[ChecksCapacity].permission = "view-table"
    /\ permission_checks[ChecksCapacity].resource = <<"db", "t">>
    /\ permission_checks[ChecksCapacity].result = "False"
    /\ permission_checks[ChecksCapacity - 1].permission = "permissions-debug"

----------------------------------------------------------------------------
(* Properties of the gate of the permissions-debug tool *)

\* The last request went to PermissionsDebugView
DebugRequest == last.view = "permissions_debug"

\* The requester passes ensure_permissions(["view-instance"])
PassesViewInstance(actor) ==
    LET result == CheckRecord(actor, "view-instance", <<>>, "None").result
    IN  IF result = "None" THEN DefaultAllow("view-instance") ELSE result = "True"

\* The requester passes the permissions-debug check
PassesPermissionsDebug(actor) ==
    CheckRecord(actor, "permissions-debug", <<>>, "False").result = "True"

\* What a response of PermissionsDebugView discloses
Disclosed(response) ==
    IF response.method = "GET" THEN response.ctx.permission_checks # <<>>
    ELSE response.ctx.result # {}

C18Inv ==
    DebugRequest =>
        LET first == PassesViewInstance(last.actor)
            second == PassesPermissionsDebug(last.actor)
        IN  /\ last.calls[1] = "ensure_permissions"
            /\ first => (Len(last.calls) >= 2 /\ last.calls[2] = "permission_allowed")
            /\ (~first \/ ~second) =>
                  /\ last.status = 403
                  /\ last.error = (IF ~first THEN "view-instance" ELSE "Permission denied")
                  /\ ~Disclosed(last)
                  /\ last.post = NoPost
                  /\ last.calls = (IF ~first THEN <<"ensure_permissions">>
                                   ELSE <<"ensure_permissions", "permission_allowed">>)
            /\ (first /\ second) => last.status # 403

C18Step ==
    (last'.view = "permissions_debug" /\ last'.status = 403) =>
        LogGrewByGateChecks(last'.actor, IF last'.error = "view-instance" THEN 1 ELSE 2)

\* C18: PermissionsDebugView (GET and POST) first evaluates
\* ensure(view-instance) and then the permissions-debug check for the
\* requester; when either fails the request ends in Forbidden: the log is
\* not shown, the form is not read, and no evaluation is made or recorded
\* for the actor, permission and resource of the form.
C18_DebugToolGated == []C18Inv /\ [][C18Step]_vars

\* A requester who may view the instance but not debug permissions posted a
\* form and was refused before it was read
C18_Witness ==
    /\ DebugRequest
    /\ last.method = "POST"
    /\ last.actor = Actor({<<"id", "alice">>})
    /\ PassesViewInstance(last.actor) /\ ~PassesPermissionsDebug(last.actor)
    /\ last.status = 403 /\ last.error = "Permission denied"
    /\ last.post = NoPost
    /\ \A i \in 1..Len(permission_checks) :
          permission_checks[i].permission # "view-table"

====
